---- MODULE Spec2Model ----
(***************************************************************************)
(* Model of src/src/StreamingDownload.tsx: the React component             *)
(* StreamingDownload and its async handler handleDownload, which POSTs a   *)
(* request, reads the streamed response chunk by chunk, parses the         *)
(* "<name>|<size>\n" header out of the first chunk holding a line feed,    *)
(* buffers the remaining bytes and saves them as a blob.                   *)
(*                                                                         *)
(* Bytes are integers 0..255, JavaScript strings are sequences of UTF-16   *)
(* code units.  Error messages are tuples of the string pieces that the    *)
(* code concatenates.                                                      *)
(***************************************************************************)
EXTENDS Integers, Sequences, FiniteSets, TLC

(* ------------------------------------------------------------------ *)
(* Bounds of the model                                                 *)
(* ------------------------------------------------------------------ *)
MaxNameLen == 2      \* code points in the file name of a header line
MaxPayloadLen == 2   \* payload bytes after the header terminator
MaxReads == 2        \* chunks the transport cuts one body into

(* ------------------------------------------------------------------ *)
(* Characters and bytes                                                *)
(* ------------------------------------------------------------------ *)
LF == 10             \* '\n', the header terminator
PIPE == 124          \* '|', the header separator
DOT == 46            \* '.'
SLASH == 47          \* '/'
REPLACEMENT == 65533 \* U+FFFD, what TextDecoder emits for malformed input

DIGITS == 48..57
\* StrWhiteSpaceChar code units below U+0100 (parseInt skips them)
WHITESPACE == {9, 10, 11, 12, 13, 32, 160}

\* line 26 with no default name
NoFileName == <<>>

\* 'download'
DefaultFileName == <<100, 111, 119, 110, 108, 111, 97, 100>>
\* '.mp3' and '.mp4'
Mp3 == <<46, 109, 112, 51>>
Mp4 == <<46, 109, 112, 52>>
\* String(undefined)
UndefinedText == <<117, 110, 100, 101, 102, 105, 110, 101, 100>>

(* ------------------------------------------------------------------ *)
(* Sequence helpers                                                    *)
(* ------------------------------------------------------------------ *)
\* Array.prototype.slice(from) / String.prototype.slice(from), from 0-based
SliceFrom(s, from) ==
  IF from >= Len(s) THEN <<>> ELSE SubSeq(s, from + 1, Len(s))

\* String.prototype.slice(0, to), to 0-based and exclusive
SliceTo(s, to) == SubSeq(s, 1, to)

\* String.prototype.indexOf for one code unit: 0-based, -1 when absent
IndexOf(s, u) ==
  IF \E i \in 1..Len(s) : s[i] = u
    THEN (CHOOSE i \in 1..Len(s) : s[i] = u /\ \A j \in 1..(i-1) : s[j] # u) - 1
    ELSE -1

RECURSIVE Flatten(_)
\* new Blob(parts): the parts' bytes one after the other
Flatten(parts) ==
  IF parts = <<>> THEN <<>> ELSE Head(parts) \o Flatten(Tail(parts))

RECURSIVE SeqsUpTo(_, _)
\* every sequence over S of length 0..n
SeqsUpTo(S, n) ==
  IF n = 0 THEN {<<>>}
  ELSE LET shorter == SeqsUpTo(S, n - 1)
       IN  shorter \cup {Append(s, x) : s \in shorter, x \in S}

(* ------------------------------------------------------------------ *)
(* UTF-8                                                               *)
(* ------------------------------------------------------------------ *)
RECURSIVE DecodeFrom(_, _)
\* new TextDecoder().decode(value) from byte i on, for bytes below 0xE0:
\* an ASCII byte is its own code unit, a lead byte 0xC2..0xDF followed by a
\* continuation byte 0x80..0xBF is one code unit, anything else is U+FFFD.
DecodeFrom(b, i) ==
  IF i > Len(b) THEN <<>>
  ELSE IF b[i] < 128 THEN <<b[i]>> \o DecodeFrom(b, i + 1)
  ELSE IF b[i] \in 194..223 /\ i + 1 <= Len(b) /\ b[i + 1] \in 128..191
    THEN <<(b[i] - 192) * 64 + (b[i + 1] - 128)>> \o DecodeFrom(b, i + 2)
  ELSE <<REPLACEMENT>> \o DecodeFrom(b, i + 1)

Decode(b) == DecodeFrom(b, 1)

RECURSIVE Utf8(_)
\* The server's encoding of a header text (code points below U+0800)
Utf8(text) ==
  IF text = <<>> THEN <<>>
  ELSE LET u == Head(text)
       IN  (IF u < 128 THEN <<u>> ELSE <<192 + (u \div 64), 128 + (u % 64)>>)
             \o Utf8(Tail(text))

(* ------------------------------------------------------------------ *)
(* Header parsing                                                      *)
(* ------------------------------------------------------------------ *)
RECURSIVE Split(_, _)
\* String.prototype.split(sep) for a one-unit separator
Split(s, sep) ==
  LET i == IndexOf(s, sep)
  IN  IF i = -1 THEN <<s>>
      ELSE <<SliceTo(s, i)>> \o Split(SliceFrom(s, i + 1), sep)

RECURSIVE SkipWhiteSpace(_)
SkipWhiteSpace(s) ==
  IF s # <<>> /\ Head(s) \in WHITESPACE THEN SkipWhiteSpace(Tail(s)) ELSE s

RECURSIVE DigitsValue(_, _)
\* value of the longest prefix of decimal digits of s, acc so far
DigitsValue(s, acc) ==
  IF s # <<>> /\ Head(s) \in DIGITS
    THEN DigitsValue(Tail(s), acc * 10 + (Head(s) - 48))
    ELSE acc

NaN == [kind |-> "NaN", val |-> 0]
Undefined == [kind |-> "undefined", val |-> 0]
Number(n) == [kind |-> "number", val |-> n]

\* parseInt(str, 10): leading white space, an optional sign, then the longest
\* prefix of digits; NaN when there is no digit.
ParseInt(str) ==
  LET t == SkipWhiteSpace(str)
      neg == t # <<>> /\ Head(t) = 45
      u == IF t # <<>> /\ Head(t) \in {43, 45} THEN Tail(t) ELSE t
  IN  IF u = <<>> \/ Head(u) \notin DIGITS THEN NaN
      ELSE Number(IF neg THEN 0 - DigitsValue(u, 0) ELSE DigitsValue(u, 0))

\* line 74 as a test for a positive number
TruthyPositive(t) == t.kind = "number" /\ t.val > 0

\* line 74 as a test against undefined only
TruthyUnlessUndefined(t) == t.kind # "undefined"

\* JavaScript truthiness of totalLength (line 74)
Truthy(t) == t.kind = "number" /\ t.val # 0

(* ------------------------------------------------------------------ *)
(* Saved file name                                                     *)
(* ------------------------------------------------------------------ *)
\* currentFileName.replace(/\.[^/.]+$/, ""): the match is a dot followed by
\* one or more code units, none of them '/' or '.', up to the end.
StripExtension(name) ==
  LET starts == {i \in 1..Len(name) :
                   /\ name[i] = DOT
                   /\ i < Len(name)
                   /\ \A j \in (i + 1)..Len(name) : name[j] \notin {SLASH, DOT}}
  IN  IF starts = {} THEN name
      ELSE SubSeq(name, 1, (CHOOSE i \in starts : \A k \in starts : i <= k) - 1)

FileExtension(type) == IF type = "audio" THEN Mp3 ELSE Mp4

DownloadName(name, type) == StripExtension(name) \o FileExtension(type)

(* ------------------------------------------------------------------ *)
(* The environment: the user's inputs and the server's responses       *)
(* ------------------------------------------------------------------ *)
Modes == {"video", "audio"}
Urls == {"", "notaurl", "http://a"}

\* new URL(url) does not throw (lines 95-102)
isValidUrl(u) == u = "http://a"

\* '1', '.' and U+00E9 (two bytes in UTF-8)
NameChars == {49, DOT, 233}
\* size fields: "0", "1", "2", "abc", "-1"
SizeTexts == {<<48>>, <<49>>, <<50>>, <<97, 98, 99>>, <<45, 49>>}
PayloadBytes == {LF, 49}

\* header lines "<name>" and "<name>|<size>", not yet encoded
HeaderTexts(n) ==
  LET names == SeqsUpTo(NameChars, n)
  IN  names \cup {nm \o <<PIPE>> \o sz : nm \in names, sz \in SizeTexts}

\* what follows the header: nothing at all, or the terminator and the payload
BodyTails(m) == {<<>>} \cup {<<LF>> \o p : p \in SeqsUpTo(PayloadBytes, m)}

\* the response bodies a server may stream
Bodies(n, m) == {Utf8(h) \o t : h \in HeaderTexts(n), t \in BodyTails(m)}

StreamBodies == Bodies(MaxNameLen, MaxPayloadLen)
\* the bodies served while the user also works the page
PageBodies == Bodies(MaxNameLen - 1, MaxPayloadLen - 1)

\* the payload the server meant: the bytes after the first line feed byte
PayloadOf(bytes) ==
  IF IndexOf(bytes, LF) = -1 THEN <<>> ELSE SliceFrom(bytes, IndexOf(bytes, LF) + 1)

ErrorStatuses == {404, 500}
ErrorTexts == {"not found", ""}

\* a thrown Error object, and a thrown value that is no Error
ThrownError(name, msg) ==
  [isError |-> TRUE, message |-> <<msg>>, string |-> <<name, ": ", msg>>]
ThrownValue(str) ==
  [isError |-> FALSE, message |-> <<>>, string |-> <<str>>]
NoError == [isError |-> FALSE, message |-> <<>>, string |-> <<>>]
\* nothing caught yet
NotCaught == [at |-> "none", thrown |-> NoError]

FetchErrors == {ThrownError("TypeError", "Failed to fetch")}
ReadErrors == {ThrownError("TypeError", "network error"), ThrownValue("aborted")}

(* ------------------------------------------------------------------ *)
(* State                                                               *)
(* ------------------------------------------------------------------ *)
VARIABLES
  url,              \* useState('')          line 12
  downloadType,     \* useState('video')     line 13
  isDownloading,    \* useState(false)       line 14
  progress,         \* useState(0)           line 15, <<r, t>> stands for r / t * 100
  fileName,         \* useState('')          line 16
  error,            \* useState('')          line 17
  dlType,           \* downloadType as captured by the running handleDownload
  currentFileName,  \* line 26
  chunks,           \* line 44
  receivedLength,   \* line 45
  totalLength,      \* line 46
  metadataReceived, \* line 47
  value,            \* the chunk of the last reader.read(), line 50
  pc,               \* where handleDownload is: idle, fetch, text, read, complete, failed
  inFlight,         \* calls of handleDownload that have not reached finally
  response,         \* status and body text of a non-success response
  body,             \* the bytes the server streams in this attempt
  pending,          \* the part of body not yet delivered
  reads,            \* chunks delivered in this attempt
  saved,            \* what the attempt handed to the save step (lines 79-87)
  caught,           \* the value caught at line 89 and the await that threw it
  nSetProgress,     \* calls of setProgress in the read loop of this attempt
  nSetFileName,     \* calls of setFileName(currentFileName) in this attempt
  prev              \* how the attempt before this one ended

vars == <<url, downloadType, isDownloading, progress, fileName, error, dlType,
          currentFileName, chunks, receivedLength, totalLength, metadataReceived,
          value, pc, inFlight, response, body, pending, reads, saved, caught,
          nSetProgress, nSetFileName, prev>>

uiVars == <<url, downloadType>>
localVars == <<currentFileName, chunks, receivedLength, totalLength,
               metadataReceived, value>>
envVars == <<response, body, pending, reads>>

ZeroProgress == <<0, 1>>
NoResponse == [status |-> 200, errorText |-> ""]
NotSaved == [done |-> FALSE, name |-> <<>>, blob |-> <<>>]

Init ==
  /\ url = ""
  /\ downloadType = "video"
  /\ isDownloading = FALSE
  /\ progress = ZeroProgress
  /\ fileName = <<>>
  /\ error = <<>>
  /\ dlType = "video"
  /\ currentFileName = DefaultFileName
  /\ chunks = <<>>
  /\ receivedLength = 0
  /\ totalLength = Undefined
  /\ metadataReceived = FALSE
  /\ value = <<>>
  /\ pc = "idle"
  /\ inFlight = 0
  /\ response = NoResponse
  /\ body = <<>>
  /\ pending = <<>>
  /\ reads = 0
  /\ saved = NotSaved
  /\ caught = NotCaught
  /\ nSetProgress = 0
  /\ nSetFileName = 0
  /\ prev = "none"

(* ------------------------------------------------------------------ *)
(* The page                                                            *)
(* ------------------------------------------------------------------ *)
\* onChange of the URL input (line 124)
SetUrl(u) ==
  /\ u # url
  /\ url' = u
  /\ UNCHANGED <<downloadType, isDownloading, progress, fileName, error, dlType,
                 localVars, pc, inFlight, envVars, saved, caught,
                 nSetProgress, nSetFileName, prev>>

\* the clear button, rendered only while url is non-empty (lines 104-109, 128)
handleClearUrl ==
  /\ url # ""
  /\ url' = ""
  /\ UNCHANGED <<downloadType, isDownloading, progress, fileName, error, dlType,
                 localVars, pc, inFlight, envVars, saved, caught,
                 nSetProgress, nSetFileName, prev>>

\* the Video and Audio buttons (lines 139, 149)
SetDownloadType(t) ==
  /\ t # downloadType
  /\ downloadType' = t
  /\ UNCHANGED <<url, isDownloading, progress, fileName, error, dlType,
                 localVars, pc, inFlight, envVars, saved, caught,
                 nSetProgress, nSetFileName, prev>>

\* the disabled attribute without its isDownloading term
DownloadDisabledWhenInvalid == url = "" \/ ~isValidUrl(url)

\* the disabled attribute of the download button (line 161)
DownloadDisabled == isDownloading \/ url = "" \/ ~isValidUrl(url)

(* ------------------------------------------------------------------ *)
(* handleDownload                                                      *)
(* ------------------------------------------------------------------ *)
\* the resets with setError('') left out
ResetDisplayKeepsError ==
  /\ progress' = ZeroProgress
  /\ error' = error
  /\ fileName' = <<>>

\* lines 22-24: setProgress(0), setError(''), setFileName('')
ResetDisplay ==
  /\ progress' = ZeroProgress
  /\ error' = <<>>
  /\ fileName' = <<>>

\* lines 20-35: the click runs the handler up to its first await.  React
\* renders the state set in a click before it handles the next event, so the
\* button's disabled attribute is read from the current state.
handleDownload ==
  /\ ~DownloadDisabled
  /\ isDownloading' = TRUE
  /\ ResetDisplay
  /\ currentFileName' = DefaultFileName
  /\ dlType' = downloadType
  /\ chunks' = <<>>
  /\ receivedLength' = 0
  /\ totalLength' = Undefined
  /\ metadataReceived' = FALSE
  /\ value' = <<>>
  /\ pc' = "fetch"
  /\ inFlight' = inFlight + 1
  /\ response' = NoResponse
  /\ body' = <<>>
  /\ pending' = <<>>
  /\ reads' = 0
  /\ saved' = NotSaved
  /\ caught' = NotCaught
  /\ nSetProgress' = 0
  /\ nSetFileName' = 0
  /\ prev' = pc
  /\ UNCHANGED uiVars

\* line 90 without its instanceof test
ErrorMessageOnly(e) == e.message

\* line 90: the text shown for a caught value
ErrorMessage(e) == IF e.isError THEN e.message ELSE e.string

\* lines 89-90 with the finally block left out
FailWithoutFinally(e, at) ==
  /\ caught' = [at |-> at, thrown |-> e]
  /\ error' = ErrorMessage(e)
  /\ isDownloading' = isDownloading
  /\ inFlight' = inFlight
  /\ pc' = "failed"

\* lines 89-93: catch and finally
Fail(e, at) ==
  /\ caught' = [at |-> at, thrown |-> e]
  /\ error' = ErrorMessage(e)
  /\ isDownloading' = FALSE
  /\ inFlight' = inFlight - 1
  /\ pc' = "failed"

\* line 29: fetch rejects
FetchRejects ==
  /\ pc = "fetch"
  /\ \E e \in FetchErrors : Fail(e, "fetch")
  /\ UNCHANGED <<uiVars, progress, fileName, dlType, localVars, envVars, saved,
                 nSetProgress, nSetFileName, prev>>

\* lines 29, 37-38: the response is not ok, its text is awaited
FetchNotOk ==
  /\ pc = "fetch"
  /\ \E s \in ErrorStatuses, t \in ErrorTexts :
       response' = [status |-> s, errorText |-> t]
  /\ pc' = "text"
  /\ UNCHANGED <<uiVars, isDownloading, progress, fileName, error, dlType,
                 localVars, inFlight, body, pending, reads, saved, caught,
                 nSetProgress, nSetFileName, prev>>

\* line 39 with the status left out of the template
StatusMessageNoStatus(r) == <<"Download failed: ", r.errorText>>

\* line 39: the message of the Error thrown for a non-success response
StatusMessage(r) == <<"Download failed: ", ToString(r.status), " ", r.errorText>>

\* lines 38-39: response.text() resolves and the Error is thrown
TextResolves ==
  /\ pc = "text"
  /\ Fail([isError |-> TRUE, message |-> StatusMessage(response),
           string |-> <<"Error: ">> \o StatusMessage(response)], "status")
  /\ UNCHANGED <<uiVars, progress, fileName, dlType, localVars, envVars, saved,
                 nSetProgress, nSetFileName, prev>>

\* line 38: response.text() rejects
TextRejects ==
  /\ pc = "text"
  /\ \E e \in FetchErrors : Fail(e, "text")
  /\ UNCHANGED <<uiVars, progress, fileName, dlType, localVars, envVars, saved,
                 nSetProgress, nSetFileName, prev>>

\* line 41: the response is ok and has no body
FetchNoBody ==
  /\ pc = "fetch"
  /\ Fail(ThrownError("Error", "Response body is null"), "body")
  /\ UNCHANGED <<uiVars, progress, fileName, dlType, localVars, envVars, saved,
                 nSetProgress, nSetFileName, prev>>

\* lines 29, 43-47: the response is ok, the reader and the locals are set up
FetchOk(bodies) ==
  /\ pc = "fetch"
  /\ \E b \in bodies : body' = b /\ pending' = b
  /\ reads' = 0
  /\ chunks' = <<>>
  /\ receivedLength' = 0
  /\ totalLength' = Undefined
  /\ metadataReceived' = FALSE
  /\ pc' = "read"
  /\ UNCHANGED <<uiVars, isDownloading, progress, fileName, error, dlType,
                 currentFileName, value, inFlight, response, saved, caught,
                 nSetProgress, nSetFileName, prev>>

\* lines 54-56
MetadataEndIndex(val) == IndexOf(Decode(val), LF)

\* line 58
Metadata(val) == SliceTo(Decode(val), MetadataEndIndex(val))

\* lines 59-60: name || currentFileName
NameOf(metadata, fallback) ==
  LET name == Split(metadata, PIPE)[1]
  IN  IF name # <<>> THEN name ELSE fallback

\* lines 59, 61: parseInt(size, 10), size undefined when there is no '|'
SizeOf(metadata) ==
  LET parts == Split(metadata, PIPE)
  IN  ParseInt(IF Len(parts) >= 2 THEN parts[2] ELSE UndefinedText)

\* line 66
ContentOf(val) == SliceFrom(val, MetadataEndIndex(val) + 1)

\* line 67 counting the whole chunk, header bytes included
ContentLengthWhole(val) == Len(val)

\* line 67
ContentLength(val) == Len(val) - (MetadataEndIndex(val) + 1)

\* line 75 with the operands of the division swapped
PercentageInverted(received, total) == <<total.val, received>>

\* line 75
Percentage(received, total) == <<received, total.val>>

\* lines 53, 57 without the test of metadataReceived
IsHeaderChunkAnyTime(val) == MetadataEndIndex(val) # -1

\* lines 53, 57 without the test of metadataEndIndex
IsHeaderChunkFirst(val) == ~metadataReceived

\* lines 53, 57: the chunk is taken for the header chunk
IsHeaderChunk(val) == ~metadataReceived /\ MetadataEndIndex(val) # -1

\* how the transport may cut the next chunk off the pending bytes
ChunkSizes ==
  {k \in 1..Len(pending) : reads + 1 < MaxReads \/ k = Len(pending)}

\* lines 50-76: reader.read() delivers a chunk and the loop body handles it
ReadChunk ==
  /\ pc = "read"
  /\ \E k \in ChunkSizes :
       LET val == SubSeq(pending, 1, k)
           isHeader == IsHeaderChunk(val)
           newChunks ==
             IF metadataReceived THEN Append(chunks, val)
             ELSE IF isHeader THEN Append(chunks, ContentOf(val))
             ELSE chunks
           newReceived ==
             IF metadataReceived THEN receivedLength + Len(val)
             ELSE IF isHeader THEN receivedLength + ContentLength(val)
             ELSE receivedLength
           newTotal == IF isHeader THEN SizeOf(Metadata(val)) ELSE totalLength
           newName ==
             IF isHeader THEN NameOf(Metadata(val), currentFileName)
             ELSE currentFileName
       IN  /\ value' = val
           /\ pending' = SliceFrom(pending, k)
           /\ reads' = reads + 1
           /\ chunks' = newChunks
           /\ receivedLength' = newReceived
           /\ totalLength' = newTotal
           /\ currentFileName' = newName
           /\ metadataReceived' = (metadataReceived \/ isHeader)
           /\ fileName' = IF isHeader THEN newName ELSE fileName
           /\ nSetFileName' = IF isHeader THEN nSetFileName + 1 ELSE nSetFileName
           /\ progress' = IF Truthy(newTotal)
                            THEN Percentage(newReceived, newTotal) ELSE progress
           /\ nSetProgress' = IF Truthy(newTotal)
                                THEN nSetProgress + 1 ELSE nSetProgress
  /\ UNCHANGED <<uiVars, isDownloading, error, dlType, pc, inFlight, response,
                 body, saved, caught, prev>>

\* lines 50-51, 79-88, 91-93: end of data, the blob is built and saved
ReadDone ==
  /\ pc = "read"
  /\ pending = <<>>
  /\ saved' = [done |-> TRUE,
               name |-> DownloadName(currentFileName, dlType),
               blob |-> Flatten(chunks)]
  /\ isDownloading' = FALSE
  /\ inFlight' = inFlight - 1
  /\ pc' = "complete"
  /\ UNCHANGED <<uiVars, progress, fileName, error, dlType, localVars, envVars,
                 caught, nSetProgress, nSetFileName, prev>>

\* line 50: reader.read() rejects
ReadThrows ==
  /\ pc = "read"
  /\ \E e \in ReadErrors : Fail(e, "read")
  /\ UNCHANGED <<uiVars, progress, fileName, dlType, localVars, envVars, saved,
                 nSetProgress, nSetFileName, prev>>

(* ------------------------------------------------------------------ *)
(* Specifications                                                      *)
(* ------------------------------------------------------------------ *)
\* The whole component: the user works the page while downloads run.
Next ==
  \/ \E u \in Urls : SetUrl(u)
  \/ handleClearUrl
  \/ \E t \in Modes : SetDownloadType(t)
  \/ handleDownload
  \/ FetchRejects
  \/ FetchNotOk
  \/ TextResolves
  \/ TextRejects
  \/ FetchNoBody
  \/ FetchOk(PageBodies)
  \/ ReadChunk
  \/ ReadDone
  \/ ReadThrows

Spec == Init /\ [][Next]_vars

\* One attempt over every body of StreamBodies, the page left alone.
InitStream ==
  /\ url = "http://a"
  /\ downloadType \in Modes
  /\ isDownloading = FALSE
  /\ progress = ZeroProgress
  /\ fileName = <<>>
  /\ error = <<>>
  /\ dlType = "video"
  /\ currentFileName = DefaultFileName
  /\ chunks = <<>>
  /\ receivedLength = 0
  /\ totalLength = Undefined
  /\ metadataReceived = FALSE
  /\ value = <<>>
  /\ pc = "idle"
  /\ inFlight = 0
  /\ response = NoResponse
  /\ body = <<>>
  /\ pending = <<>>
  /\ reads = 0
  /\ saved = NotSaved
  /\ caught = NotCaught
  /\ nSetProgress = 0
  /\ nSetFileName = 0
  /\ prev = "none"

NextStream ==
  \/ (pc = "idle" /\ handleDownload)
  \/ FetchRejects
  \/ FetchNotOk
  \/ TextResolves
  \/ TextRejects
  \/ FetchNoBody
  \/ FetchOk(StreamBodies)
  \/ ReadChunk
  \/ ReadDone
  \/ ReadThrows

SpecStream == InitStream /\ [][NextStream]_vars

\* Everything the handler waits for: the request, the error text, a read.
Settle ==
  \/ ReadThrows
  \/ ReadDone
  \/ ReadChunk
  \/ FetchRejects
  \/ FetchNotOk
  \/ TextResolves
  \/ TextRejects
  \/ FetchNoBody
  \/ FetchOk(StreamBodies)

\* One attempt in which every pending promise settles and the handler's
\* continuation then runs.
SpecStreamFair == SpecStream /\ WF_vars(Settle)

(* ------------------------------------------------------------------ *)
(* Claims                                                              *)
(* ------------------------------------------------------------------ *)
\* the header line the server sent: the text before the first line feed byte
HeaderOf(bytes) == Decode(SliceTo(bytes, IndexOf(bytes, LF)))

\* s ends with t
EndsWith(s, t) ==
  Len(t) <= Len(s) /\ SubSeq(s, Len(s) - Len(t) + 1, Len(s)) = t

\* C1: when the stream of an attempt ends with end-of-data, the blob handed
\* to the save step is the payload of the stream: the bytes of the metadata
\* chunk after the terminator followed by every later chunk, in arrival
\* order, and no header byte.
C1_BlobIsPayload ==
  pc = "complete" => saved.done /\ saved.blob = PayloadOf(body)

\* C2: at the metadata transition the bytes appended to the buffer are the
\* bytes of that chunk after the terminator byte, and receivedLength grows by
\* the number of those bytes and by no header byte.
C2_MetadataAppendsPayloadOnly ==
  [][(~metadataReceived /\ metadataReceived')
       => /\ chunks' = Append(chunks, PayloadOf(value'))
          /\ receivedLength' = receivedLength + Len(PayloadOf(value'))]_vars

\* some part of the message is the text x
Contains(message, x) == \E i \in 1..Len(message) : message[i] = x

C4_ReadErrorFails ==
  caught.at = "read" =>
    /\ pc = "failed" /\ ~isDownloading /\ inFlight = 0
    /\ error # <<>>
    /\ error = IF caught.thrown.isError
                 THEN caught.thrown.message ELSE caught.thrown.string
    /\ ~saved.done

C4_Witness ==
  /\ pc = "failed" /\ caught.at = "read" /\ ~caught.thrown.isError
  /\ Len(chunks) >= 1 /\ receivedLength > 0 /\ pending # <<>>
  /\ error = <<"aborted">>

\* the total length the header line announces
DeclaredTotal(bytes) == SizeOf(HeaderOf(bytes))

\* the header announces a number and it is the number of payload bytes sent
CorrectlyReported(bytes) ==
  /\ IndexOf(bytes, LF) # -1
  /\ DeclaredTotal(bytes).kind = "number"
  /\ DeclaredTotal(bytes).val = Len(PayloadOf(bytes))

\* C5: when the header's total length is known and is the number of payload
\* bytes sent, receivedLength never decreases from chunk to chunk and is the
\* total length at end-of-data.
C5_ReceivedReachesTotal ==
  [][(pc = "read" /\ CorrectlyReported(body))
       => /\ receivedLength' >= receivedLength
          /\ pc' = "complete" => receivedLength' = DeclaredTotal(body).val]_vars

\* r / t * 100 lies in [0, 100]
InRange(p) ==
  \/ p[2] > 0 /\ 0 <= p[1] /\ p[1] <= p[2]
  \/ p[2] < 0 /\ p[2] <= p[1] /\ p[1] <= 0

\* C6 as stated: every value passed to setProgress is in [0, 100].
C6_ProgressInRange == InRange(progress)

\* C6 amended: every value passed to setProgress is the reset value 0 or
\* 100 * receivedLength / totalLength for the parsed, non-zero totalLength;
\* it is in [0, 100] whenever 0 <= receivedLength <= totalLength.
C6_ProgressIsRatio ==
  /\ \/ progress = ZeroProgress
     \/ Truthy(totalLength) /\ progress = <<receivedLength, totalLength.val>>
  /\ (totalLength.kind = "number" /\ totalLength.val > 0
        /\ receivedLength <= totalLength.val) => InRange(progress)

C6_Witness ==
  /\ pc = "complete" /\ nSetProgress = 2
  /\ totalLength = Number(2) /\ receivedLength = 2 /\ progress = <<2, 2>>

\* the bytes delivered so far in this attempt
Delivered == SliceTo(body, Len(body) - Len(pending))

\* C7: when the size field of the header does not parse as an integer the
\* total length is unknown, no percentage is emitted after the reset to 0,
\* no error is set, every payload chunk is buffered and end-of-data
\* completes the attempt with everything buffered in the blob.
C7_UnparsedSizeStillCompletes ==
  (metadataReceived /\ totalLength.kind # "number") =>
    /\ totalLength = NaN
    /\ nSetProgress = 0 /\ progress = ZeroProgress
    /\ pc \in {"read", "complete"} => error = <<>>
    /\ EndsWith(Flatten(chunks), PayloadOf(Delivered))
    /\ pc = "complete" =>
         /\ saved.done /\ saved.blob = Flatten(chunks)
         /\ EndsWith(saved.blob, PayloadOf(body))

C7_Witness ==
  /\ pc = "complete" /\ totalLength = NaN /\ metadataReceived
  /\ HeaderOf(body) = <<49, PIPE, 97, 98, 99>>
  /\ Len(chunks) = 2 /\ saved.blob = <<49, 49>> /\ error = <<>>

\* the dots of a name
Dots(name) == {i \in 1..Len(name) : name[i] = DOT}

\* a name without its last dot and what follows it
WithoutLastSuffix(name) ==
  IF Dots(name) = {} THEN name
  ELSE SubSeq(name, 1, (CHOOSE i \in Dots(name) : \A k \in Dots(name) : k <= i) - 1)

\* C8: for a working file name with at most one dot, a name that is only a
\* suffix or ends in a dot included, the saved name is the working name
\* without its last suffix, followed by .mp3 for audio and .mp4 for video.
C8_SavedNameReplacesSuffix ==
  (pc = "complete" /\ Cardinality(Dots(currentFileName)) <= 1) =>
    saved.name = WithoutLastSuffix(currentFileName)
                   \o (IF dlType = "audio" THEN Mp3 ELSE Mp4)

\* C9: whatever the attempt before left, from the click until the first
\* chunk of the new attempt is handled the file name and the error are
\* empty, progress is 0, and buffer, byte count and working file name are
\* those of a fresh attempt.
C9_NewAttemptStartsClear ==
  (pc \in {"fetch", "text"} \/ (pc = "read" /\ reads = 0)) =>
    /\ fileName = <<>> /\ error = <<>> /\ progress = ZeroProgress
    /\ chunks = <<>> /\ receivedLength = 0 /\ totalLength = Undefined
    /\ ~metadataReceived /\ currentFileName = DefaultFileName
    /\ ~saved.done

C9_Witness ==
  /\ pc = "read" /\ reads = 0 /\ prev = "failed"
  /\ fileName = <<>> /\ error = <<>> /\ progress = ZeroProgress

\* C10: at most one attempt is in progress; while one is, the download
\* button is disabled, whatever the user does on the page.
C10_OneAttemptAtATime ==
  /\ inFlight <= 1
  /\ inFlight = 1 <=> pc \in {"fetch", "text", "read"}
  /\ inFlight = 1 => isDownloading /\ DownloadDisabled

C10_Witness ==
  /\ pc = "read" /\ reads = 1 /\ inFlight = 1
  /\ url # "" /\ isValidUrl(url) /\ downloadType # dlType

\* C11: every started attempt reaches Complete or Failed when every pending
\* request and read settles and the stream is finite; in both outcomes
\* isDownloading is false again and the download button is enabled.
C11_AttemptEnds ==
  isDownloading ~>
    (pc \in {"complete", "failed"} /\ ~isDownloading /\ inFlight = 0
       /\ ~DownloadDisabled)

C11_Witness ==
  /\ pc = "complete" /\ reads = 2 /\ ~isDownloading /\ ~DownloadDisabled
  /\ saved.done

\* C12 as stated: in every attempt that reaches Complete the file-name
\* callback has been invoked with the working name exactly once.
C12_FileNameSetOnce == pc = "complete" => nSetFileName = 1

\* C12 amended: setFileName(currentFileName) is invoked at most once in an
\* attempt; it has been invoked, once and with the working name, exactly
\* when a delivered chunk held a line terminator (the metadata transition),
\* and never in an attempt whose stream ends without one.
C12_FileNameSetAtTransition ==
  /\ metadataReceived <=> IndexOf(Delivered, LF) # -1
  /\ nSetFileName = IF metadataReceived THEN 1 ELSE 0
  /\ fileName = IF metadataReceived THEN currentFileName ELSE <<>>

C12_Witness ==
  /\ pc = "complete" /\ nSetFileName = 1 /\ Len(chunks) = 2
  /\ IndexOf(chunks[2], LF) # -1 /\ fileName = <<49>>

\* C13 as stated: whenever the size field parses to an integer, 0 included,
\* a percentage is emitted after every chunk from the metadata chunk on.
C13_ProgressAfterEveryChunk ==
  (metadataReceived /\ totalLength.kind = "number") =>
    nSetProgress = Len(chunks)

\* C13 amended: whenever the size field parses to an integer other than 0,
\* 100 * receivedLength / totalLength is emitted after every chunk from the
\* metadata chunk on; when it parses to 0 no percentage is emitted.
C13_ProgressAfterEveryChunkUnlessZero ==
  /\ (totalLength.kind = "number" /\ totalLength.val # 0) =>
       /\ nSetProgress = Len(chunks)
       /\ progress = <<receivedLength, totalLength.val>>
  /\ (totalLength.kind = "number" /\ totalLength.val = 0) =>
       /\ nSetProgress = 0
       /\ progress = ZeroProgress

C13_Witness ==
  /\ pc = "read" /\ totalLength = Number(1) /\ Len(chunks) = 2
  /\ nSetProgress = 2 /\ progress = <<2, 1>>

\* the step is the click that starts a new attempt
StartsAttempt == pc \in {"idle", "complete", "failed"} /\ pc' = "fetch"

\* C14: within an attempt the protocol state only moves forward: once the
\* metadata transition has happened it stays, and a later chunk, also one
\* that holds a line terminator byte, is appended whole as payload and
\* changes neither the file name nor the total length; the read loop only
\* ends in Complete or Failed, and after either no chunk is processed.
C14_ProtocolMovesForward ==
  [][~StartsAttempt =>
       /\ metadataReceived => metadataReceived'
       /\ (metadataReceived /\ reads' # reads) =>
            /\ chunks' = Append(chunks, value')
            /\ receivedLength' = receivedLength + Len(value')
            /\ currentFileName' = currentFileName
            /\ fileName' = fileName
            /\ totalLength' = totalLength
       /\ pc = "read" => pc' \in {"read", "complete", "failed"}
       /\ pc \in {"complete", "failed"} =>
            /\ pc' = pc /\ reads' = reads /\ value' = value
            /\ chunks' = chunks /\ receivedLength' = receivedLength
            /\ metadataReceived' = metadataReceived /\ saved' = saved]_vars

C14_Witness ==
  /\ pc = "read" /\ metadataReceived /\ totalLength = Number(1)
  /\ Len(chunks) = 2 /\ chunks[2] = value /\ IndexOf(value, LF) # -1

\* a header line "<name>|<size>" with a name and a size that is a number
ValidHeader(h) ==
  /\ Len(Split(h, PIPE)) = 2
  /\ Split(h, PIPE)[1] # <<>>
  /\ ParseInt(Split(h, PIPE)[2]).kind = "number"

\* C15: when the stream is one chunk holding a valid header line that ends
\* at the terminator, and then end-of-data, the attempt completes with an
\* empty blob, receivedLength 0, the header's file name and no error.
C15_HeaderOnlyCompletesEmpty ==
  (/\ pc = "complete" /\ reads = 1
   /\ body # <<>> /\ IndexOf(body, LF) = Len(body) - 1
   /\ ValidHeader(HeaderOf(body))) =>
    /\ saved.done /\ saved.blob = <<>> /\ receivedLength = 0
    /\ fileName = Split(HeaderOf(body), PIPE)[1]
    /\ error = <<>>

\* C16: a chunk read while awaiting metadata that holds no terminator is
\* discarded whole: nothing is appended, receivedLength, fileName and
\* totalLength keep their values and the download still awaits metadata.
\* The chunk that holds the terminator is the only source of the metadata:
\* the name and size come from its own bytes before the terminator, never
\* from bytes of the chunks discarded before it, and every payload byte
\* after its terminator is in the buffer.
C16_PartialHeaderDiscarded ==
  [][(pc = "read" /\ ~metadataReceived /\ reads' # reads) =>
       /\ IndexOf(value', LF) = -1 =>
            /\ ~metadataReceived'
            /\ chunks' = chunks /\ receivedLength' = receivedLength
            /\ currentFileName' = currentFileName /\ fileName' = fileName
            /\ totalLength' = totalLength /\ progress' = progress
       /\ IndexOf(value', LF) # -1 =>
            /\ metadataReceived'
            /\ Len(chunks') = 1
            /\ EndsWith(chunks'[1], PayloadOf(value'))
            /\ fileName' = NameOf(HeaderOf(value'), currentFileName)
            /\ totalLength' = SizeOf(HeaderOf(value'))]_vars

\* a header line cut in two: the first read was discarded, so the name
\* shown is not the name the server sent
C16_Witness ==
  /\ pc = "read" /\ reads = 2 /\ metadataReceived
  /\ IndexOf(value, LF) # -1 /\ Len(value) < Len(body)
  /\ Len(chunks) = 1 /\ chunks[1] = PayloadOf(value) /\ chunks[1] # <<>>
  /\ Split(HeaderOf(body), PIPE)[1] # <<>>
  /\ fileName # Split(HeaderOf(body), PIPE)[1]
  /\ fileName = NameOf(HeaderOf(value), DefaultFileName)

\* C17: after every processed chunk, receivedLength is the sum of the
\* lengths of the byte arrays held in chunks, wherever the terminator stands
\* in the metadata chunk and however the stream is cut into chunks.
C17_ReceivedIsBufferedLength == receivedLength = Len(Flatten(chunks))

\* a metadata chunk with a two-byte character in its header and a payload
\* byte, followed by one more chunk
C17_Witness ==
  /\ pc = "read" /\ reads = 2 /\ Len(chunks) = 2
  /\ body[1] = 195 /\ body[2] = 169
  /\ Len(chunks[1]) = 2 /\ receivedLength = 3

\* C18: when end-of-data comes while the download still awaits metadata
\* (no chunk held a terminator, or no chunk came at all), the attempt does
\* not fail: it completes with an empty error message and saves an empty
\* blob named 'download' plus the extension of the mode, however many bytes
\* were delivered.
C18_NoMetadataStillCompletes ==
  /\ pc = "complete" => (~metadataReceived <=> IndexOf(body, LF) = -1)
  /\ (pc = "complete" /\ ~metadataReceived) =>
       /\ error = <<>> /\ caught = NotCaught
       /\ saved.done /\ saved.blob = <<>>
       /\ saved.name = <<100, 111, 119, 110, 108, 111, 97, 100>>
                         \o (IF dlType = "audio" THEN Mp3 ELSE Mp4)
       /\ receivedLength = 0 /\ fileName = <<>>

\* two chunks without a terminator were delivered, then end-of-data
C18_Witness ==
  /\ pc = "complete" /\ ~metadataReceived /\ reads = 2
  /\ Len(body) >= 2 /\ saved.done /\ saved.blob = <<>> /\ error = <<>>

\* end-of-data with no chunk at all
C18_WitnessNoChunk == pc = "complete" /\ reads = 0 /\ body = <<>> /\ saved.done

====
